---------------------------- MODULE Spec2Model ----------------------------
(***************************************************************************)
(* The five SOLID example programs of go-solid (SRP, OCP, LSP, ISP, DIP)   *)
(* and the interface dispatch they demonstrate.                            *)
(*                                                                         *)
(* Representation.                                                         *)
(*  - A Go string is a sequence of one-character strings, so that          *)
(*    formatting, concatenation and substring search are computed.         *)
(*  - A float64 is a fixed-point integer counting hundredths (Scale).      *)
(*    Amounts are whole numbers, for which amount * 0.9 and amount * 0.85  *)
(*    are exact in hundredths and agree with the float64 products.         *)
(*  - main is a sequence of statements executed at pc.  driver = "main"    *)
(*    runs the main of the source file; driver = "client" runs arbitrary   *)
(*    well-typed client statements over the same declarations, with        *)
(*    receivers and amounts drawn from bounded sets.                       *)
(***************************************************************************)
EXTENDS Integers, Sequences, FiniteSets

\* ------------------------------------------------------------- state
VARIABLES
  prog,              \* the example program: "SRP", "OCP", "LSP", "ISP", "DIP"
  driver,            \* "main": the file's main; "client": any client main
  pc,                \* index of the next statement of main
  status,            \* "running", "exited" (exit code 0), "panicked"
  scope,             \* the local variables of main declared so far
  invoice,           \* main's invoice
  paymentProcessor,  \* LSP main's interface variable
  processor,         \* DIP main's holder
  ret,               \* the value the last call returned, until it is used
  stdout,            \* standard output, a stream of characters
  lastBound,         \* history: the operand of the last binding statement
  calls              \* history: the method calls made, in order

vars ==
  << prog, driver, pc, status, scope, invoice, paymentProcessor, processor,
     ret, stdout, lastBound, calls >>

\* ------------------------------------------------------------- bounds
\* Statements a client main executes at most.
MaxSteps == 6

\* Amounts a client passes (whole numbers).
Amounts == {0, 7, 500, 1000}

\* ------------------------------------------------------------ float64
\* Fixed-point scale: a float64 x is the integer x * Scale.
Scale == 100

\* The float64 of a whole number.
F(n) == n * Scale

\* float64 multiplication.
Mul(x, y) == (x * y) \div Scale

\* --------------------------------------------------------------- fmt
DigitChars == << "0", "1", "2", "3", "4", "5", "6", "7", "8", "9" >>

RECURSIVE FormatD(_)
\* The verb %d: the decimal digits of a non-negative int.
FormatD(n) ==
  IF n < 10 THEN << DigitChars[n + 1] >>
  ELSE FormatD(n \div 10) \o << DigitChars[(n % 10) + 1] >>

\* The verb %f of a non-negative float64: six digits after the point.
FormatF(x) ==
  FormatD(x \div Scale)
    \o << ".", DigitChars[((x % Scale) \div 10) + 1],
          DigitChars[(x % 10) + 1], "0", "0", "0", "0" >>

\* The verb %v of a non-negative float64 (what Println uses): the shortest
\* decimal that reads back as the value.
FormatV(x) ==
  LET ip == FormatD(x \div Scale)
      d1 == (x % Scale) \div 10
      d2 == x % 10
  IN  IF d1 = 0 /\ d2 = 0 THEN ip
      ELSE IF d2 = 0 THEN ip \o << ".", DigitChars[d1 + 1] >>
      ELSE ip \o << ".", DigitChars[d1 + 1], DigitChars[d2 + 1] >>

\* Formats an operand under one verb.
FormatVerb(verb, operand) ==
  IF verb = "f" THEN FormatF(operand)
  ELSE IF verb = "d" THEN FormatD(operand)
  ELSE << "%", "!", verb >>

RECURSIVE Sprintf(_, _)
\* fmt.Sprintf(format, operands...): the format with each verb replaced by
\* its operand, formatted; operands is the sequence of operands left.
Sprintf(format, operands) ==
  IF format = << >> THEN << >>
  ELSE IF format[1] = "%" /\ Len(format) >= 2 /\ operands # << >>
    THEN FormatVerb(format[2], Head(operands))
           \o Sprintf(SubSeq(format, 3, Len(format)), Tail(operands))
  ELSE << format[1] >> \o Sprintf(Tail(format), operands)

RECURSIVE Sprintln(_)
\* fmt.Println's text for already formatted operands: the operands with a
\* space between each two, and a newline.
Sprintln(operands) ==
  IF operands = << >> THEN << "\n" >>
  ELSE IF Len(operands) = 1 THEN Head(operands) \o << "\n" >>
  ELSE Head(operands) \o << " " >> \o Sprintln(Tail(operands))

\* ------------------------------------------------------ string helpers
\* strings.Contains(s, sub).
Contains(s, sub) ==
  \E i \in 1..(Len(s) + 1) :
    /\ i + Len(sub) - 1 <= Len(s)
    /\ SubSeq(s, i, i + Len(sub) - 1) = sub

\* strings.HasPrefix(s, p).
HasPrefix(s, p) == Len(p) <= Len(s) /\ SubSeq(s, 1, Len(p)) = p

\* strings.HasSuffix(s, p).
HasSuffix(s, p) ==
  Len(p) <= Len(s) /\ SubSeq(s, Len(s) - Len(p) + 1, Len(s)) = p

RECURSIVE Lines(_)
\* The lines of a stream: the text before each newline.
Lines(s) ==
  IF s = << >> THEN << >>
  ELSE LET nl == CHOOSE i \in 1..(Len(s) + 1) :
                   /\ (i = Len(s) + 1 \/ s[i] = "\n")
                   /\ \A j \in 1..(i - 1) : s[j] # "\n"
       IN  << SubSeq(s, 1, nl - 1) >>
             \o (IF nl >= Len(s) THEN << >>
                 ELSE Lines(SubSeq(s, nl + 1, Len(s))))

\* ------------------------------------------------- OCP: discounts
\* The rate constants, in hundredths.
HOLIDAY_DISCOUNT_PERCENTAGE == 90

ROYALTY_DISCOUNT_PERCENTAGE == 85

\* The types implementing Discount.
DiscountTypes == {"HolidayDiscount", "LoyaltyDiscount"}

\* ApplyDiscount with the loyalty percentage taken off twice over: the
\* amount times 0.15.
ApplyDiscountPercentOff(type, amount) ==
  IF type = "HolidayDiscount" THEN Mul(amount, HOLIDAY_DISCOUNT_PERCENTAGE)
  ELSE Mul(amount, Scale - ROYALTY_DISCOUNT_PERCENTAGE)

\* ApplyDiscount of each Discount type.
ApplyDiscount(type, amount) ==
  IF type = "HolidayDiscount" THEN Mul(amount, HOLIDAY_DISCOUNT_PERCENTAGE)
  ELSE Mul(amount, ROYALTY_DISCOUNT_PERCENTAGE)

\* The first operand of main's first Println.
HolidayPrintLabel ==
  << "H", "o", "l", "i", "d", "a", "y", " ", "D", "i", "s", "c", "o", "u",
     "n", "t", ":", " " >>

\* The first operand of main's second Println.
LoyaltyPrintLabel ==
  << "H", "o", "l", "i", "d", "a", "y", " ", "D", "i", "s", "c", "o", "u",
     "n", "t", ":", " " >>

\* ------------------------------------------------- LSP: payments
FmtCashPayment ==
  << "P", "r", "o", "c", "e", "s", "s", "i", "n", "g", " ", "c", "a", "s",
     "h", " ", "p", "a", "y", "m", "e", "n", "t", " ", "o", "f", " ", "%",
     "f" >>

FmtCardPayment ==
  << "P", "r", "o", "c", "e", "s", "s", "i", "n", "g", " ", "c", "a", "r",
     "d", " ", "p", "a", "y", "m", "e", "n", "t", " ", "o", "f", " ", "%",
     "f" >>

\* The types implementing the PaymentProcessor interface.
ProcessorTypes == {"CashPayment", "CardPayment"}

\* ProcessPayment with CardPayment's body copied from CashPayment.
ProcessPaymentCopied(type, amount) == Sprintf(FmtCashPayment, << amount >>)

\* ProcessPayment of each PaymentProcessor type.
ProcessPayment(type, amount) ==
  IF type = "CashPayment" THEN Sprintf(FmtCashPayment, << amount >>)
  ELSE Sprintf(FmtCardPayment, << amount >>)

\* ------------------------------------------------- DIP: payment methods
FmtCreditCard ==
  << "P", "a", "i", "d", " ", "%", "f", " ", "u", "s", "i", "n", "g", " ",
     "C", "r", "e", "d", "i", "t", " ", "C", "a", "r", "d" >>

FmtPayPal ==
  << "P", "a", "i", "d", " ", "%", "f", " ", "u", "s", "i", "n", "g", " ",
     "P", "a", "y", "P", "a", "l" >>

\* The types implementing PaymentMethod.
MethodTypes == {"CreditCard", "PayPal"}

\* Pay that adds the amount of the call before to its own.
PayRunningTotal(type, amount) ==
  LET total == amount + (IF calls = << >> THEN 0 ELSE calls[Len(calls)].arg)
  IN  IF type = "CreditCard" THEN Sprintf(FmtCreditCard, << total >>)
      ELSE Sprintf(FmtPayPal, << total >>)

\* Pay of each PaymentMethod type.
Pay(type, amount) ==
  IF type = "CreditCard" THEN Sprintf(FmtCreditCard, << amount >>)
  ELSE Sprintf(FmtPayPal, << amount >>)

\* The nil interface value.
Nil == "nil"

\* ------------------------------------------------- ISP: printers
PrintingDocument ==
  << "P", "r", "i", "n", "t", "i", "n", "g", " ", "d", "o", "c", "u", "m",
     "e", "n", "t" >>

ScanningDocument ==
  << "S", "c", "a", "n", "n", "i", "n", "g", " ", "d", "o", "c", "u", "m",
     "e", "n", "t" >>

PrinterTypes == {"SimplePrinter", "MultifunctionPrinter"}

\* SimplePrinter made to declare Scan as well.
MethodSetFat(type) ==
  IF type \in PrinterTypes THEN {"Print", "Scan"}
  ELSE IF type \in {"CashPayment", "CardPayment"} THEN {"ProcessPayment"}
  ELSE IF type \in {"CreditCard", "PayPal"} THEN {"Pay"}
  ELSE IF type \in {"HolidayDiscount", "LoyaltyDiscount"}
    THEN {"ApplyDiscount"}
  ELSE IF type = "InvoicePrinter" THEN {"PrintInvoice"}
  ELSE {}

\* The methods each struct type declares.
MethodSet(type) ==
  IF type = "SimplePrinter" THEN {"Print"}
  ELSE IF type = "MultifunctionPrinter" THEN {"Print", "Scan"}
  ELSE IF type \in ProcessorTypes THEN {"ProcessPayment"}
  ELSE IF type \in MethodTypes THEN {"Pay"}
  ELSE IF type \in DiscountTypes THEN {"ApplyDiscount"}
  ELSE IF type = "InvoicePrinter" THEN {"PrintInvoice"}
  ELSE {}

\* The methods each interface requires.
InterfaceMethods(iface) ==
  IF iface = "Printer" THEN {"Print"}
  ELSE IF iface = "Scanner" THEN {"Scan"}
  ELSE IF iface = "PaymentProcessor" THEN {"ProcessPayment"}
  ELSE IF iface = "PaymentMethod" THEN {"Pay"}
  ELSE IF iface = "Discount" THEN {"ApplyDiscount"}
  ELSE {}

\* Go's assignability of a struct type to an interface type.
Implements(type, iface) == InterfaceMethods(iface) \subseteq MethodSet(type)

\* What Print of each printer type writes.
PrinterPrint(type) == Sprintln(<< PrintingDocument >>)

\* What Scan of MultifunctionPrinter writes.
PrinterScan(type) == Sprintln(<< ScanningDocument >>)

\* ------------------------------------------------- SRP: invoice printing
FmtPrintInvoice ==
  << "I", "n", "v", "o", "i", "c", "e", " ", "I", "D", ":", " ", "%", "d",
     ",", " ", "A", "m", "o", "u", "n", "t", ":", " ", "%", "f", "\n" >>

\* What PrintInvoice writes.
PrintInvoice(inv) == Sprintf(FmtPrintInvoice, << inv.ID, inv.Amount >>)

\* ------------------------------------------------- DIP: the holder
\* A holder whose Method is left unset.
NewPaymentProcessorUnset(method) == [Method |-> "nil"]

\* The composite literal PaymentProcessor{Method: method}.
NewPaymentProcessor(method) == [Method |-> method]

\* Process that prints the line twice.
ProcessTwice(p, amount) ==
  Sprintln(<< Pay(p.Method, amount) >>) \o Sprintln(<< Pay(p.Method, amount) >>)

\* What Process writes: the line Println makes of the method's Pay.
Process(p, amount) == Sprintln(<< Pay(p.Method, amount) >>)

\* ---------------------------------------------------------- programs
Programs == {"SRP", "OCP", "LSP", "ISP", "DIP"}

\* A statement of main: its operation and operands.
St(op, recv, arg, id, text) ==
  [op |-> op, recv |-> recv, arg |-> arg, id |-> id, text |-> text]

\* No value (a call without result, or a result already used).
NoValue == [kind |-> "none", str |-> << >>, num |-> 0]

StringValue(s) == [kind |-> "string", str |-> s, num |-> 0]

FloatValue(x) == [kind |-> "float64", str |-> << >>, num |-> x]

\* The type of each local struct variable of a program's main.
VarType(p, name) ==
  IF name = "holidayDiscount" THEN "HolidayDiscount"
  ELSE IF name = "loyaltyDiscount" THEN "LoyaltyDiscount"
  ELSE IF name = "mfp" THEN "MultifunctionPrinter"
  ELSE IF name = "printer" /\ p = "ISP" THEN "SimplePrinter"
  ELSE IF name = "printer" /\ p = "SRP" THEN "InvoicePrinter"
  ELSE "none"

\* The statements of each file's main, in order.  A statement that prints
\* the result of a call is two statements: the call, then the Println.
MainSRP ==
  << St("invoice", "", F(1000), 1, << >>),
     St("declare", "printer", 0, 0, << >>),
     St("PrintInvoice", "printer", 0, 0, << >>) >>

MainOCP ==
  << St("invoice", "", F(1000), 0, << >>),
     St("declare", "holidayDiscount", 0, 0, << >>),
     St("ApplyDiscount", "holidayDiscount", 0, 0, << >>),
     St("PrintlnLabel", "", 0, 0, HolidayPrintLabel),
     St("declare", "loyaltyDiscount", 0, 0, << >>),
     St("ApplyDiscount", "loyaltyDiscount", 0, 0, << >>),
     St("PrintlnLabel", "", 0, 0, LoyaltyPrintLabel) >>

MainLSP ==
  << St("var", "", 0, 0, << >>),
     St("assign", "CashPayment", 0, 0, << >>),
     St("ProcessPayment", "", F(500), 0, << >>),
     St("Println", "", 0, 0, << >>),
     St("assign", "CardPayment", 0, 0, << >>),
     St("ProcessPayment", "", F(1000), 0, << >>),
     St("Println", "", 0, 0, << >>) >>

MainISP ==
  << St("declare", "printer", 0, 0, << >>),
     St("Print", "printer", 0, 0, << >>),
     St("declare", "mfp", 0, 0, << >>),
     St("Print", "mfp", 0, 0, << >>),
     St("Scan", "mfp", 0, 0, << >>) >>

\* The DIP main without its second binding.
MainDIPNoRebind ==
  << St("NewProcessor", "CreditCard", 0, 0, << >>),
     St("Process", "", F(100), 0, << >>),
     St("Process", "", F(200), 0, << >>) >>

MainDIP ==
  << St("NewProcessor", "CreditCard", 0, 0, << >>),
     St("Process", "", F(100), 0, << >>),
     St("NewProcessor", "PayPal", 0, 0, << >>),
     St("Process", "", F(200), 0, << >>) >>

Main(p) ==
  IF p = "SRP" THEN MainSRP
  ELSE IF p = "OCP" THEN MainOCP
  ELSE IF p = "LSP" THEN MainLSP
  ELSE IF p = "ISP" THEN MainISP
  ELSE MainDIP

\* The statements a client main may write over each file's declarations.
\* Whether one type-checks is decided by the guard of its action.
ClientStmts(p) ==
  IF p = "SRP" THEN
    { St("invoice", "", F(a), 1, << >>) : a \in Amounts }
      \cup { St("declare", "printer", 0, 0, << >>),
             St("PrintInvoice", "printer", 0, 0, << >>) }
  ELSE IF p = "OCP" THEN
    { St("invoice", "", F(a), 0, << >>) : a \in Amounts }
      \cup { St(op, v, 0, 0, << >>) :
               op \in {"declare", "ApplyDiscount"},
               v \in {"holidayDiscount", "loyaltyDiscount"} }
      \cup { St("PrintlnLabel", "", 0, 0, HolidayPrintLabel) }
  ELSE IF p = "LSP" THEN
    { St("var", "", 0, 0, << >>), St("Println", "", 0, 0, << >>) }
      \cup { St("assign", v, 0, 0, << >>) : v \in ProcessorTypes }
      \cup { St("ProcessPayment", "", F(a), 0, << >>) : a \in Amounts }
  ELSE IF p = "ISP" THEN
    { St(op, v, 0, 0, << >>) :
        op \in {"declare", "Print", "Scan"}, v \in {"printer", "mfp"} }
  ELSE
    { St("NewProcessor", m, 0, 0, << >>) : m \in MethodTypes \cup {Nil} }
      \cup { St("Process", "", F(a), 0, << >>) : a \in Amounts }

\* The statements that may execute next.
Current ==
  IF status # "running" THEN {}
  ELSE IF driver = "main"
    THEN (IF pc <= Len(Main(prog)) THEN { Main(prog)[pc] } ELSE {})
  ELSE IF pc <= MaxSteps THEN ClientStmts(prog)
  ELSE {}

\* The record of one method call: the method, the type whose method ran,
\* the last binding at the time, the input, the value returned and the text
\* the call wrote to standard output.  Process records the call of Pay it
\* makes, then itself.
Call(op, recv, arg, out, wrote) ==
  [op |-> op, recv |-> recv, bound |-> lastBound, arg |-> arg, out |-> out,
   wrote |-> wrote]

\* An assignment that takes effect only while nothing was bound before.
AssignKeepFirst(slot, value) == IF lastBound = "none" THEN value ELSE slot

\* An assignment that is lost.
AssignLost(slot, value) == slot

\* The value a slot holds after the assignment slot = value.
Assign(slot, value) == value

Init ==
  /\ prog \in Programs
  /\ driver \in {"main", "client"}
  /\ pc = 1
  /\ status = "running"
  /\ scope = {}
  /\ invoice = [ID |-> 0, Amount |-> 0]
  /\ paymentProcessor = Nil
  /\ processor = NewPaymentProcessor(Nil)
  /\ ret = NoValue
  /\ stdout = << >>
  /\ lastBound = "none"
  /\ calls = << >>

\* ----------------------------------------------------------- actions
\* invoice := Invoice{...}, or the same with = once invoice is declared.
DeclareInvoice ==
  \E s \in Current :
    /\ s.op = "invoice"
    /\ invoice' = [ID |-> s.id, Amount |-> s.arg]
    /\ scope' = scope \cup {"invoice"}
    /\ pc' = pc + 1
    /\ UNCHANGED << prog, driver, status, paymentProcessor, processor, ret,
                    stdout, lastBound, calls >>

\* x := T{} for a struct type T without fields.
DeclareStruct ==
  \E s \in Current :
    /\ s.op = "declare"
    /\ s.recv \notin scope
    /\ scope' = scope \cup {s.recv}
    /\ pc' = pc + 1
    /\ UNCHANGED << prog, driver, status, invoice, paymentProcessor,
                    processor, ret, stdout, lastBound, calls >>

\* printer.PrintInvoice(invoice)
CallPrintInvoice ==
  \E s \in Current :
    /\ s.op = "PrintInvoice"
    /\ {s.recv, "invoice"} \subseteq scope
    /\ "PrintInvoice" \in MethodSet(VarType(prog, s.recv))
    /\ stdout' = stdout \o PrintInvoice(invoice)
    /\ ret' = NoValue
    /\ calls' = Append(calls, Call("PrintInvoice", VarType(prog, s.recv),
                                   invoice.Amount, NoValue,
                                   PrintInvoice(invoice)))
    /\ pc' = pc + 1
    /\ UNCHANGED << prog, driver, status, scope, invoice, paymentProcessor,
                    processor, lastBound >>

\* The call d.ApplyDiscount(invoice.Amount) on a declared discount d.
CallApplyDiscount ==
  \E s \in Current :
    /\ s.op = "ApplyDiscount"
    /\ {s.recv, "invoice"} \subseteq scope
    /\ "ApplyDiscount" \in MethodSet(VarType(prog, s.recv))
    /\ LET out == FloatValue(ApplyDiscount(VarType(prog, s.recv),
                                           invoice.Amount))
       IN  /\ ret' = out
           /\ calls' = Append(calls, Call("ApplyDiscount",
                                          VarType(prog, s.recv),
                                          invoice.Amount, out, << >>))
    /\ pc' = pc + 1
    /\ UNCHANGED << prog, driver, status, scope, invoice, paymentProcessor,
                    processor, stdout, lastBound >>

\* fmt.Println(label, result) of a discount result.
PrintlnLabel ==
  \E s \in Current :
    /\ s.op = "PrintlnLabel"
    /\ ret.kind = "float64"
    /\ stdout' = stdout \o Sprintln(<< s.text, FormatV(ret.num) >>)
    /\ ret' = NoValue
    /\ pc' = pc + 1
    /\ UNCHANGED << prog, driver, status, scope, invoice, paymentProcessor,
                    processor, lastBound, calls >>

\* var paymentProcessor PaymentProcessor
DeclareVar ==
  \E s \in Current :
    /\ s.op = "var"
    /\ "paymentProcessor" \notin scope
    /\ paymentProcessor' = Nil
    /\ scope' = scope \cup {"paymentProcessor"}
    /\ pc' = pc + 1
    /\ UNCHANGED << prog, driver, status, invoice, processor, ret, stdout,
                    lastBound, calls >>

\* paymentProcessor = T{} for a type T implementing PaymentProcessor.
AssignProcessor ==
  \E s \in Current :
    /\ s.op = "assign"
    /\ "paymentProcessor" \in scope
    /\ Implements(s.recv, "PaymentProcessor")
    /\ paymentProcessor' = Assign(paymentProcessor, s.recv)
    /\ lastBound' = s.recv
    /\ pc' = pc + 1
    /\ UNCHANGED << prog, driver, status, scope, invoice, processor, ret,
                    stdout, calls >>

\* The call paymentProcessor.ProcessPayment(amount): a method call on a nil
\* interface value panics.
CallProcessPayment ==
  \E s \in Current :
    /\ s.op = "ProcessPayment"
    /\ "paymentProcessor" \in scope
    /\ IF paymentProcessor = Nil
         THEN /\ status' = "panicked"
              /\ UNCHANGED << pc, ret, calls >>
         ELSE LET out == StringValue(ProcessPayment(paymentProcessor, s.arg))
              IN  /\ ret' = out
                  /\ calls' = Append(calls, Call("ProcessPayment",
                                                 paymentProcessor, s.arg,
                                                 out, << >>))
                  /\ pc' = pc + 1
                  /\ UNCHANGED status
    /\ UNCHANGED << prog, driver, scope, invoice, paymentProcessor,
                    processor, stdout, lastBound >>

\* fmt.Println(result) of a payment result.
PrintlnResult ==
  \E s \in Current :
    /\ s.op = "Println"
    /\ ret.kind = "string"
    /\ stdout' = stdout \o Sprintln(<< ret.str >>)
    /\ ret' = NoValue
    /\ pc' = pc + 1
    /\ UNCHANGED << prog, driver, status, scope, invoice, paymentProcessor,
                    processor, lastBound, calls >>

\* processor := PaymentProcessor{Method: m}, or the same with = once
\* processor is declared.
AssignHolder ==
  \E s \in Current :
    /\ s.op = "NewProcessor"
    /\ s.recv = Nil \/ Implements(s.recv, "PaymentMethod")
    /\ processor' = Assign(processor, NewPaymentProcessor(s.recv))
    /\ scope' = scope \cup {"processor"}
    /\ lastBound' = s.recv
    /\ pc' = pc + 1
    /\ UNCHANGED << prog, driver, status, invoice, paymentProcessor, ret,
                    stdout, calls >>

\* processor.Process(amount): prints what p.Method.Pay returns; the call
\* p.Method.Pay panics when p.Method is nil.
CallProcess ==
  \E s \in Current :
    /\ s.op = "Process"
    /\ "processor" \in scope
    /\ IF processor.Method = Nil
         THEN /\ status' = "panicked"
              /\ UNCHANGED << pc, stdout, calls >>
         ELSE /\ stdout' = stdout \o Process(processor, s.arg)
              /\ calls' = calls \o
                   << Call("Pay", processor.Method, s.arg,
                           StringValue(Pay(processor.Method, s.arg)), << >>),
                      Call("Process", processor.Method, s.arg, NoValue,
                           Process(processor, s.arg)) >>
              /\ pc' = pc + 1
              /\ UNCHANGED status
    /\ ret' = NoValue
    /\ UNCHANGED << prog, driver, scope, invoice, paymentProcessor,
                    processor, lastBound >>

\* x.Print() on a declared printer x.
CallPrint ==
  \E s \in Current :
    /\ s.op = "Print"
    /\ s.recv \in scope
    /\ "Print" \in MethodSet(VarType(prog, s.recv))
    /\ stdout' = stdout \o PrinterPrint(VarType(prog, s.recv))
    /\ ret' = NoValue
    /\ calls' = Append(calls, Call("Print", VarType(prog, s.recv), 0,
                                   NoValue,
                                   PrinterPrint(VarType(prog, s.recv))))
    /\ pc' = pc + 1
    /\ UNCHANGED << prog, driver, status, scope, invoice, paymentProcessor,
                    processor, lastBound >>

\* x.Scan() on a declared printer x whose type has the method Scan.
CallScan ==
  \E s \in Current :
    /\ s.op = "Scan"
    /\ s.recv \in scope
    /\ "Scan" \in MethodSet(VarType(prog, s.recv))
    /\ stdout' = stdout \o PrinterScan(VarType(prog, s.recv))
    /\ ret' = NoValue
    /\ calls' = Append(calls, Call("Scan", VarType(prog, s.recv), 0,
                                   NoValue,
                                   PrinterScan(VarType(prog, s.recv))))
    /\ pc' = pc + 1
    /\ UNCHANGED << prog, driver, status, scope, invoice, paymentProcessor,
                    processor, lastBound >>

\* main returns: the process exits with code 0.
Return ==
  /\ status = "running"
  /\ driver = "main" => pc > Len(Main(prog))
  /\ status' = "exited"
  /\ UNCHANGED << prog, driver, pc, scope, invoice, paymentProcessor,
                  processor, ret, stdout, lastBound, calls >>

Next ==
  \/ DeclareInvoice
  \/ DeclareStruct
  \/ CallPrintInvoice
  \/ CallApplyDiscount
  \/ PrintlnLabel
  \/ DeclareVar
  \/ AssignProcessor
  \/ CallProcessPayment
  \/ PrintlnResult
  \/ AssignHolder
  \/ CallProcess
  \/ CallPrint
  \/ CallScan
  \/ Return

Spec == Init /\ [][Next]_vars

\* ------------------------------------------------------------ claims
CallIdx == 1..Len(calls)

\* C1: every ApplyDiscount call returns its amount times the rate of the
\* type it ran on, 0.9 for HolidayDiscount and 0.85 for LoyaltyDiscount; on
\* 1000 that is 900 and 850.
C1_DiscountIsAmountTimesRate ==
  \A i \in CallIdx :
    calls[i].op = "ApplyDiscount" =>
      /\ calls[i].out.kind = "float64"
      /\ calls[i].recv \in DiscountTypes
      /\ calls[i].recv = "HolidayDiscount" =>
           /\ calls[i].out.num * 10 = calls[i].arg * 9
           /\ calls[i].arg = 1000 * Scale => calls[i].out.num = 900 * Scale
      /\ calls[i].recv = "LoyaltyDiscount" =>
           /\ calls[i].out.num * 20 = calls[i].arg * 17
           /\ calls[i].arg = 1000 * Scale => calls[i].out.num = 850 * Scale

\* Both discounts have been applied to 1000.
C1_Witness ==
  /\ \E i \in CallIdx :
       /\ calls[i].recv = "HolidayDiscount"
       /\ calls[i].arg = 1000 * Scale
       /\ calls[i].out.num = 900 * Scale
  /\ \E i \in CallIdx :
       /\ calls[i].recv = "LoyaltyDiscount"
       /\ calls[i].arg = 1000 * Scale
       /\ calls[i].out.num = 850 * Scale

Str_Cash == << "C", "a", "s", "h" >>

Str_Card == << "C", "a", "r", "d" >>

Str_cash == << "c", "a", "s", "h" >>

Str_card == << "c", "a", "r", "d" >>

Str_CreditCard == << "C", "r", "e", "d", "i", "t", " ", "C", "a", "r", "d" >>

Str_PayPal == << "P", "a", "y", "P", "a", "l" >>

\* The label the claim gives each payment type.
ClaimedLabel(type) ==
  IF type = "CashPayment" THEN Str_Cash
  ELSE IF type = "CardPayment" THEN Str_Card
  ELSE IF type = "CreditCard" THEN Str_CreditCard
  ELSE Str_PayPal

\* The label each payment type's string carries.
WrittenLabel(type) ==
  IF type = "CashPayment" THEN Str_cash
  ELSE IF type = "CardPayment" THEN Str_card
  ELSE IF type = "CreditCard" THEN Str_CreditCard
  ELSE Str_PayPal

\* The digits of a whole amount, computed apart from FormatF.
RECURSIVE WholeDigits(_)
WholeDigits(n) ==
  IF n = 0 THEN << >>
  ELSE WholeDigits(n \div 10) \o << DigitChars[(n % 10) + 1] >>

\* A whole amount as %f writes it.
AmountText(x) ==
  (IF x \div Scale = 0 THEN << "0" >> ELSE WholeDigits(x \div Scale))
    \o << ".", "0", "0", "0", "0", "0", "0" >>

PaymentOps == {"ProcessPayment", "Pay"}

\* Calls of different types of one capability on one amount return
\* different strings.
DistinctPerVariant ==
  \A i, j \in CallIdx :
    /\ calls[i].op \in PaymentOps
    /\ calls[i].op = calls[j].op
    /\ calls[i].arg = calls[j].arg
    /\ calls[i].recv # calls[j].recv
    => calls[i].out # calls[j].out

\* C2 as stated: every ProcessPayment / Pay call returns a string holding
\* the formatted amount and the label "Cash", "Card", "Credit Card" or
\* "PayPal" of its type, and two types never return the same string for
\* one amount.
C2_LabelsAsClaimed ==
  /\ \A i \in CallIdx :
       calls[i].op \in PaymentOps =>
         /\ calls[i].out.kind = "string"
         /\ Contains(calls[i].out.str, AmountText(calls[i].arg))
         /\ Contains(calls[i].out.str, ClaimedLabel(calls[i].recv))
  /\ DistinctPerVariant

\* C2 amended: the same, with the labels "cash", "card", "Credit Card" and
\* "PayPal".
C2_LabelsAsWritten ==
  /\ \A i \in CallIdx :
       calls[i].op \in PaymentOps =>
         /\ calls[i].out.kind = "string"
         /\ Contains(calls[i].out.str, AmountText(calls[i].arg))
         /\ Contains(calls[i].out.str, WrittenLabel(calls[i].recv))
  /\ DistinctPerVariant

\* Both types of one capability have been called on one amount.
C2_Witness ==
  \E i, j \in CallIdx :
    /\ calls[i].op = "ProcessPayment"
    /\ calls[j].op = "ProcessPayment"
    /\ calls[i].recv = "CashPayment"
    /\ calls[j].recv = "CardPayment"
    /\ calls[i].arg = calls[j].arg

SlotOps == {"ProcessPayment", "Pay", "Process"}

\* Two strings are one text around two labels.
DiffersOnlyInLabel(o1, l1, o2, l2) ==
  \E k \in 0..Len(o1) :
    /\ k + Len(l1) <= Len(o1)
    /\ k + Len(l2) <= Len(o2)
    /\ SubSeq(o1, 1, k) = SubSeq(o2, 1, k)
    /\ SubSeq(o1, k + 1, k + Len(l1)) = l1
    /\ SubSeq(o2, k + 1, k + Len(l2)) = l2
    /\ SubSeq(o1, k + Len(l1) + 1, Len(o1))
         = SubSeq(o2, k + Len(l2) + 1, Len(o2))

\* C3: every call through the interface variable or the holder runs the
\* method of the type bound last and yields that method's result on the
\* input, whatever was bound before; results of two types on one input
\* differ in the label only.
C3_LastBindingDecides ==
  /\ \A i \in CallIdx :
       calls[i].op \in SlotOps =>
         /\ calls[i].bound \in ProcessorTypes \cup MethodTypes
         /\ calls[i].recv = calls[i].bound
         /\ calls[i].op = "ProcessPayment" =>
              calls[i].out
                = StringValue(ProcessPayment(calls[i].bound, calls[i].arg))
         /\ calls[i].op = "Pay" =>
              calls[i].out = StringValue(Pay(calls[i].bound, calls[i].arg))
         /\ calls[i].op = "Process" =>
              calls[i].wrote
                = Pay(calls[i].bound, calls[i].arg) \o << "\n" >>
  /\ \A i, j \in CallIdx :
       /\ calls[i].op \in PaymentOps
       /\ calls[i].op = calls[j].op
       /\ calls[i].arg = calls[j].arg
       => DiffersOnlyInLabel(calls[i].out.str, WrittenLabel(calls[i].recv),
                             calls[j].out.str, WrittenLabel(calls[j].recv))

\* A call was made under one binding and a later call under another.
C3_Witness ==
  \E i, j \in CallIdx :
    /\ i < j
    /\ calls[i].op = "ProcessPayment"
    /\ calls[j].op = "ProcessPayment"
    /\ calls[i].bound = "CardPayment"
    /\ calls[j].bound = "CashPayment"

DispatchOps == {"ProcessPayment", "ApplyDiscount", "Process"}

\* C4: two calls of one method on one type with one input return the same
\* value and write the same text, whatever happened between them.
C4_SameCallSameResult ==
  \A i, j \in CallIdx :
    /\ calls[i].op = calls[j].op
    /\ calls[i].recv = calls[j].recv
    /\ calls[i].arg = calls[j].arg
    => /\ calls[i].out = calls[j].out
       /\ calls[i].wrote = calls[j].wrote

\* The same call was made twice, with a call on another type in between.
C4_Witness ==
  \E i, j, k \in CallIdx :
    /\ i < j /\ j < k
    /\ calls[i].op = "Process"
    /\ calls[j].op = "Process"
    /\ calls[k].op = "Process"
    /\ calls[i].recv = calls[k].recv
    /\ calls[i].arg = calls[k].arg
    /\ calls[j].recv # calls[i].recv

\* C5 as stated: in the example programs, the interface variable and the
\* holder reference a variant whenever they exist.
C5_NeverUnbound ==
  driver = "main" =>
    /\ "paymentProcessor" \in scope => paymentProcessor \in ProcessorTypes
    /\ "processor" \in scope => processor.Method \in MethodTypes

\* C5 amended: in the example programs the holder always references one
\* variant; the interface variable is nil from its declaration to the first
\* assignment and references the variant bound last from then on, and at
\* every call on it.
C5_BoundFromFirstAssignment ==
  driver = "main" =>
    /\ "processor" \in scope =>
         processor.Method \in MethodTypes /\ processor.Method = lastBound
    /\ ("paymentProcessor" \in scope /\ lastBound = "none") =>
         paymentProcessor = Nil
    /\ ("paymentProcessor" \in scope /\ lastBound # "none") =>
         paymentProcessor \in ProcessorTypes /\ paymentProcessor = lastBound
    /\ \A s \in Current :
         /\ s.op = "ProcessPayment" => paymentProcessor \in ProcessorTypes
         /\ s.op = "Process" => processor.Method \in MethodTypes

\* The LSP main has rebound its variable and finished.
C5_Witness ==
  /\ driver = "main"
  /\ prog = "LSP"
  /\ paymentProcessor = "CardPayment"
  /\ status = "exited"

\* C6 as stated: nothing fails at run time, for any holder value and any
\* amount.
C6_NoRuntimeError == status # "panicked"

\* C6 amended: a call panics only on a nil interface variable or on a holder
\* whose Method is nil; every example program executes each of its
\* statements, never panics and exits with success.
C6_PanicsOnlyOnNil ==
  /\ status = "panicked" =>
       \/ prog = "LSP" /\ paymentProcessor = Nil
       \/ prog = "DIP" /\ processor.Method = Nil
  /\ \A i \in CallIdx : calls[i].recv # Nil
  /\ driver = "main" =>
       /\ status # "panicked"
       /\ Cardinality(Current) <= 1
       /\ status = "running" => ENABLED Next
       /\ status = "exited" => pc = Len(Main(prog)) + 1

\* The DIP main has processed both payments and exited.
C6_Witness ==
  /\ driver = "main"
  /\ prog = "DIP"
  /\ status = "exited"
  /\ Len(calls) = 4

\* C7: SimplePrinter has exactly Print, MultifunctionPrinter has Print and
\* Scan; SimplePrinter is not assignable to Scanner; no Scan call ever runs
\* on a SimplePrinter, and a Scan statement on one does not type-check, while
\* Print on either and Scan on a MultifunctionPrinter do and write their
\* line.
C7_ScanRejectedOnSimplePrinter ==
  /\ MethodSet("SimplePrinter") = {"Print"}
  /\ MethodSet("MultifunctionPrinter") = {"Print", "Scan"}
  /\ ~Implements("SimplePrinter", "Scanner")
  /\ Implements("SimplePrinter", "Printer")
  /\ Implements("MultifunctionPrinter", "Printer")
  /\ Implements("MultifunctionPrinter", "Scanner")
  /\ \A i \in CallIdx :
       /\ calls[i].op = "Scan" =>
            /\ calls[i].recv = "MultifunctionPrinter"
            /\ calls[i].wrote = ScanningDocument \o << "\n" >>
       /\ calls[i].op = "Print" =>
            /\ calls[i].recv \in PrinterTypes
            /\ calls[i].wrote = PrintingDocument \o << "\n" >>
  /\ (prog = "ISP" /\ driver = "client" /\ status = "running"
        /\ pc <= MaxSteps) =>
       /\ ("printer" \in scope /\ "mfp" \notin scope) => ~ENABLED CallScan
       /\ "mfp" \in scope => ENABLED CallScan
       /\ scope # {} => ENABLED CallPrint

\* A client has a SimplePrinter only, has printed on it, and may write a
\* further statement.
C7_Witness ==
  /\ prog = "ISP"
  /\ driver = "client"
  /\ status = "running"
  /\ pc <= MaxSteps
  /\ scope = {"printer"}
  /\ Len(calls) >= 1

Str_HolidayDiscount ==
  << "H", "o", "l", "i", "d", "a", "y", " ", "D", "i", "s", "c", "o", "u",
     "n", "t", ":" >>

Str_LoyaltyDiscount ==
  << "L", "o", "y", "a", "l", "t", "y", " ", "D", "i", "s", "c", "o", "u",
     "n", "t", ":" >>

Str_900 == << "9", "0", "0" >>

Str_850 == << "8", "5", "0" >>

\* C8: the discount program prints two lines, the first labelled
\* "Holiday Discount:" with 900, the second labelled "Loyalty Discount:"
\* with 850.
C8_EachResultUnderItsLabel ==
  (prog = "OCP" /\ driver = "main" /\ status = "exited") =>
    /\ Len(Lines(stdout)) = 2
    /\ HasPrefix(Lines(stdout)[1], Str_HolidayDiscount)
    /\ HasSuffix(Lines(stdout)[1], << " " >> \o Str_900)
    /\ HasPrefix(Lines(stdout)[2], Str_LoyaltyDiscount)
    /\ HasSuffix(Lines(stdout)[2], << " " >> \o Str_850)

\* What the method of the type a call ran on returns.
VariantOutput(c) ==
  IF c.op = "ProcessPayment"
    THEN StringValue(ProcessPayment(c.recv, c.arg))
  ELSE IF c.op = "ApplyDiscount"
    THEN FloatValue(ApplyDiscount(c.recv, c.arg))
  ELSE StringValue(Pay(c.recv, c.arg))

\* What a call leaves alone: the bindings, the holder and the input.
CallFrame ==
  /\ paymentProcessor' = paymentProcessor
  /\ processor' = processor
  /\ invoice' = invoice
  /\ scope' = scope
  /\ lastBound' = lastBound

\* C9 as stated: a call through a capability, PaymentProcessor.Process
\* included, hands the variant's result to the caller, changes neither
\* binding, holder nor input, and writes nothing.
C9_InvokeOnlyReturns ==
  [][Len(calls') > Len(calls) =>
       LET c == calls'[Len(calls')]
       IN  c.op \in DispatchOps =>
             /\ CallFrame
             /\ ret' = VariantOutput(c)
             /\ stdout' = stdout]_vars

\* C9 amended: every call leaves binding, holder and input unchanged;
\* ProcessPayment and ApplyDiscount hand the variant's result to the caller
\* and write nothing; Process returns nothing and writes the result of
\* Pay as one line; the printer methods and PrintInvoice return nothing and
\* write their own text.
C9_FrameOfEachCall ==
  [][Len(calls') > Len(calls) =>
       LET c == calls'[Len(calls')]
       IN  /\ CallFrame
           /\ c.op \in {"ProcessPayment", "ApplyDiscount"} =>
                ret' = VariantOutput(c) /\ stdout' = stdout
           /\ c.op = "Process" =>
                /\ ret' = NoValue
                /\ stdout' = stdout \o Pay(c.recv, c.arg) \o << "\n" >>
           /\ c.op \in {"Print", "Scan", "PrintInvoice"} =>
                /\ ret' = NoValue
                /\ c.wrote # << >>
                /\ stdout' = stdout \o c.wrote]_vars

\* Process has run on a bound holder.
C9_Witness ==
  /\ prog = "DIP"
  /\ calls # << >>
  /\ calls[Len(calls)].op = "Process"
  /\ stdout # << >>

Line_Cash500 ==
  << "P", "r", "o", "c", "e", "s", "s", "i", "n", "g", " ", "c", "a", "s",
     "h", " ", "p", "a", "y", "m", "e", "n", "t", " ", "o", "f", " ", "5",
     "0", "0", ".", "0", "0", "0", "0", "0", "0" >>

Line_Card1000 ==
  << "P", "r", "o", "c", "e", "s", "s", "i", "n", "g", " ", "c", "a", "r",
     "d", " ", "p", "a", "y", "m", "e", "n", "t", " ", "o", "f", " ", "1",
     "0", "0", "0", ".", "0", "0", "0", "0", "0", "0" >>

Line_CreditCard100 ==
  << "P", "a", "i", "d", " ", "1", "0", "0", ".", "0", "0", "0", "0", "0",
     "0", " ", "u", "s", "i", "n", "g", " ", "C", "r", "e", "d", "i", "t",
     " ", "C", "a", "r", "d" >>

Line_PayPal200 ==
  << "P", "a", "i", "d", " ", "2", "0", "0", ".", "0", "0", "0", "0", "0",
     "0", " ", "u", "s", "i", "n", "g", " ", "P", "a", "y", "P", "a", "l" >>

Line_Printing ==
  << "P", "r", "i", "n", "t", "i", "n", "g", " ", "d", "o", "c", "u", "m",
     "e", "n", "t" >>

Line_Scanning ==
  << "S", "c", "a", "n", "n", "i", "n", "g", " ", "d", "o", "c", "u", "m",
     "e", "n", "t" >>

\* The calls made by main itself (Pay is called by Process).
CallsOfMain == SelectSeq(calls, LAMBDA c : c.op # "Pay")

\* The text a call of main puts on standard output, by the call itself or
\* by the Println around it, without the newline.
LineOf(c) ==
  IF c.op = "ProcessPayment" THEN c.out.str
  ELSE IF c.op = "ApplyDiscount" THEN HolidayPrintLabel \o << " " >>
                                        \o FormatV(c.out.num)
  ELSE SubSeq(c.wrote, 1, Len(c.wrote) - 1)

\* C10: in each example program every call through a slot finds the slot
\* bound, and ran on the type bound at the time; the k-th line of output is
\* the line of the k-th call; a finished program has written one line per
\* call: the LSP program the cash line for 500 and the card line for 1000,
\* the DIP program "Paid 100.000000 using Credit Card" and the PayPal line
\* for 200, the ISP program "Printing document" twice and "Scanning
\* document".
C10_OneLinePerCallInOrder ==
  driver = "main" =>
    /\ status # "panicked"
    /\ \A i \in CallIdx :
         calls[i].op \in SlotOps =>
           calls[i].recv # Nil /\ calls[i].recv = calls[i].bound
    /\ Len(Lines(stdout)) <= Len(CallsOfMain)
    /\ \A k \in 1..Len(Lines(stdout)) :
         Lines(stdout)[k] = LineOf(CallsOfMain[k])
    /\ status = "exited" =>
         /\ Len(Lines(stdout)) = Len(CallsOfMain)
         /\ prog = "LSP" => Lines(stdout) = << Line_Cash500, Line_Card1000 >>
         /\ prog = "DIP" =>
              Lines(stdout) = << Line_CreditCard100, Line_PayPal200 >>
         /\ prog = "ISP" =>
              Lines(stdout) = << Line_Printing, Line_Printing, Line_Scanning >>
         /\ prog = "OCP" => Len(Lines(stdout)) = 2
         /\ prog = "SRP" => Len(Lines(stdout)) = 1

\* The LSP main has printed both lines and exited.
C10_Witness ==
  /\ driver = "main"
  /\ prog = "LSP"
  /\ status = "exited"
  /\ Len(Lines(stdout)) = 2

=============================================================================
